---- MODULE Spec2Model ----
(***************************************************************************)
(* Model of IPsolver::Solver (src/include/IPsolver/Solver.hh): the         *)
(* configuration surface (validated setters, callback setters, descent     *)
(* mode) and the primal-dual interior-point iteration of Solver::solve,    *)
(* for problems with one primal variable (n = 1) and m inequality          *)
(* constraints.                                                            *)
(*                                                                         *)
(* Real is modelled as a decimal floating-point number with a four-digit   *)
(* mantissa, <<m, e>> standing for m * 10^e, with the IEEE special values  *)
(* NaN and +-Inf, rounding to nearest, overflow to Inf and underflow to 0. *)
(***************************************************************************)
EXTENDS Integers, Sequences, FiniteSets, TLC

(***************************************************************************)
(* Real: decimal floating point                                            *)
(***************************************************************************)

Pow10(k) == <<1, 10, 100, 1000, 10000, 100000, 1000000>>[k + 1]

NDigits(a) ==
  IF a < 10 THEN 1 ELSE IF a < 100 THEN 2 ELSE IF a < 1000 THEN 3
  ELSE IF a < 10000 THEN 4 ELSE IF a < 100000 THEN 5 ELSE IF a < 1000000 THEN 6
  ELSE IF a < 10000000 THEN 7 ELSE IF a < 100000000 THEN 8
  ELSE IF a < 1000000000 THEN 9 ELSE 10

Abs(i) == IF i < 0 THEN -i ELSE i

Sgn(i) == IF i < 0 THEN -1 ELSE IF i > 0 THEN 1 ELSE 0

Zero == <<0, 0>>

NaN == <<0, 1>>

PInf == <<1, 0>>

NInf == <<-1, 0>>

IsNaN(a) == a = NaN

IsInf(a) == a = PInf \/ a = NInf

IsZero(a) == a = Zero

\* A mantissa and an exponent within the range of a double
\* (overflow above 1e308 gives Inf, underflow below 1e-323 gives 0).
Pack(m, e) ==
  IF e > 305 THEN (IF m > 0 THEN PInf ELSE NInf)
  ELSE IF e < -326 THEN Zero
  ELSE <<m, e>>

\* the d-digit natural a cut to four digits, half away from zero
Round(a, d) ==
  IF d > 4 THEN (a + 5 * Pow10(d - 5)) \div Pow10(d - 4) ELSE a * Pow10(4 - d)

\* a mantissa rounded up to 10000 becomes 1000 with the next exponent
Carry(s, q, e) == IF q = 10000 THEN Pack(s * 1000, e + 1) ELSE Pack(s * q, e)

\* The integer m * 10^e as a Real: a four-digit mantissa
Norm(m, e) ==
  IF m = 0 THEN Zero
  ELSE Carry(Sgn(m), Round(Abs(m), NDigits(Abs(m))), e + NDigits(Abs(m)) - 4)

FromInt(i) == Norm(i, 0)

FNeg(a) == IF IsNaN(a) \/ IsZero(a) THEN a ELSE <<-a[1], a[2]>>

\* hi + lo for finite nonzero operands, hi the one of the larger exponent
Align(hi, lo) ==
  IF hi[2] - lo[2] > 5 THEN hi
  ELSE Norm(hi[1] * Pow10(hi[2] - lo[2]) + lo[1], lo[2])

FAdd(a, b) ==
  IF IsNaN(a) \/ IsNaN(b) THEN NaN
  ELSE IF IsInf(a) THEN (IF IsInf(b) /\ a # b THEN NaN ELSE a)
  ELSE IF IsInf(b) THEN b
  ELSE IF IsZero(a) THEN b
  ELSE IF IsZero(b) THEN a
  ELSE IF a[2] >= b[2] THEN Align(a, b) ELSE Align(b, a)

FSub(a, b) == FAdd(a, FNeg(b))

FMul(a, b) ==
  IF IsNaN(a) \/ IsNaN(b) THEN NaN
  ELSE IF IsInf(a) \/ IsInf(b)
       THEN (IF IsZero(a) \/ IsZero(b) THEN NaN
             ELSE IF Sgn(a[1]) * Sgn(b[1]) > 0 THEN PInf ELSE NInf)
  ELSE Norm(a[1] * b[1], a[2] + b[2])

FDiv(a, b) ==
  IF IsNaN(a) \/ IsNaN(b) THEN NaN
  ELSE IF IsInf(a)
       THEN (IF IsInf(b) THEN NaN
             ELSE IF Sgn(a[1]) * (IF b[1] < 0 THEN -1 ELSE 1) > 0 THEN PInf ELSE NInf)
  ELSE IF IsInf(b) THEN Zero
  ELSE IF IsZero(b)
       THEN (IF IsZero(a) THEN NaN ELSE IF a[1] > 0 THEN PInf ELSE NInf)
  ELSE Norm(Sgn(a[1]) * Sgn(b[1]) * ((Abs(a[1]) * Pow10(5)) \div Abs(b[1])),
            a[2] - b[2] - 5)

\* a < b, false when either is NaN
FLt(a, b) ==
  /\ ~IsNaN(a)
  /\ ~IsNaN(b)
  /\ a # b
  /\ FSub(a, b)[1] < 0

FLe(a, b) == ~IsNaN(a) /\ ~IsNaN(b) /\ (a = b \/ FLt(a, b))

FGt(a, b) == FLt(b, a)

\* std::min(a, b) is (b < a) ? b : a
FMin(a, b) == IF FLt(b, a) THEN b ELSE a

\* std::max(a, b) is (a < b) ? b : a
FMax(a, b) == IF FLt(a, b) THEN b ELSE a

FAbs(a) == IF IsNaN(a) THEN a ELSE <<Abs(a[1]), a[2]>>

\* Newton's iteration for the integer square root of n, from above
RECURSIVE ISqrtIter(_, _)
ISqrtIter(n, r) ==
  IF (r + n \div r) \div 2 >= r THEN r ELSE ISqrtIter(n, (r + n \div r) \div 2)

ISqrt(n) == IF n = 0 THEN 0 ELSE ISqrtIter(n, 46340)

\* std::sqrt
FSqrt(a) ==
  IF IsNaN(a) THEN NaN
  ELSE IF IsZero(a) THEN Zero
  ELSE IF a[1] < 0 THEN NaN
  ELSE IF IsInf(a) THEN PInf
  ELSE IF a[2] % 2 = 0
       THEN Norm(ISqrt(a[1] * Pow10(4)), (a[2] - 4) \div 2)
       ELSE Norm(ISqrt(a[1] * Pow10(5)), (a[2] - 5) \div 2)

Ln10 == <<2303, -3>>

\* ln 1 .. ln 9
LnDigit == << Zero, <<6931, -4>>, <<1099, -3>>, <<1386, -3>>, <<1609, -3>>,
              <<1792, -3>>, <<1946, -3>>, <<2079, -3>>, <<2197, -3>> >>

\* 2 atanh(t) = 2 t (1 + t^2 / 3 + t^4 / 5 + t^6 / 7), with t2 = t^2
Atanh2(t, t2) ==
  FMul(FMul(FromInt(2), t),
       FAdd(FromInt(1),
            FMul(t2, FAdd(<<3333, -4>>,
                          FMul(t2, FAdd(<<2000, -4>>, FMul(t2, <<1429, -4>>)))))))

\* ln(v) = 2 atanh((v - 1) / (v + 1)) at t = (v - 1) / (v + 1)
LnSeries(t) == Atanh2(t, FMul(t, t))

\* ln(m * 10^e) = ln k + ln v + (e + 3) ln 10 with m / 1000 = k * v and k the
\* leading digit of m
LnParts(m, k, e) ==
  FAdd(FAdd(LnDigit[k], LnSeries(FDiv(FromInt(m - 1000 * k), FromInt(m + 1000 * k)))),
       FMul(FromInt(e + 3), Ln10))

\* std::log
FLog(a) ==
  IF IsNaN(a) THEN NaN
  ELSE IF IsZero(a) THEN NInf
  ELSE IF a[1] < 0 THEN NaN
  ELSE IF IsInf(a) THEN PInf
  ELSE LnParts(a[1], a[1] \div 1000, a[2])

\* std::log10
FLog10(a) == FDiv(FLog(a), Ln10)

(***************************************************************************)
(* Vectors of length m (Eigen vectors) as sequences of Real                *)
(***************************************************************************)

RECURSIVE SumTo(_, _)
SumTo(v, k) == IF k = 0 THEN Zero ELSE FAdd(SumTo(v, k - 1), v[k])

Sum(v) == SumTo(v, Len(v))

Dot(u, v) == Sum([i \in 1..Len(u) |-> FMul(u[i], v[i])])

RECURSIVE MinTo(_, _)
MinTo(v, k) == IF k = 1 THEN v[1] ELSE FMin(MinTo(v, k - 1), v[k])

MinCoeff(v) == MinTo(v, Len(v))

Ones(m) == [i \in 1..m |-> FromInt(1)]

(***************************************************************************)
(* The problems handed to the solver: quadratic programs in one variable,  *)
(*   f(x) = 0.5 H x^2 + q x,  c_i(x) = 0.5 P_i x^2 + r_i x - b_i,          *)
(* the shape of the test problems of the repository.                       *)
(***************************************************************************)

Problems ==
  << \* f = x^2 / 2, c = -1 (constant, always feasible)
     [H |-> FromInt(1), q |-> Zero,
      P |-> <<Zero>>, r |-> <<Zero>>, b |-> <<FromInt(1)>>, dom |-> PInf],
     \* f = x, c = x
     [H |-> Zero, q |-> FromInt(1),
      P |-> <<Zero>>, r |-> <<FromInt(1)>>, b |-> <<Zero>>, dom |-> PInf],
     \* f = x^2 - 5 x, c = (x - 2, x^2 / 2 - x - 4)
     [H |-> FromInt(2), q |-> FromInt(-5),
      P |-> <<Zero, FromInt(1)>>, r |-> <<FromInt(1), FromInt(-1)>>,
      b |-> <<FromInt(2), FromInt(4)>>, dom |-> PInf],
     \* f = x where x <= 1 and not evaluable (NaN) where x > 1, c = -1
     [H |-> Zero, q |-> FromInt(1),
      P |-> <<Zero>>, r |-> <<Zero>>, b |-> <<FromInt(1)>>, dom |-> FromInt(1)] >>

ProblemIds == 1..Len(Problems)

\* auto objective = [H, q](const Vector& x): 0.5 * x' * H * x + q.dot(x)
\* a caller's objective may fail to evaluate: NaN at every x > dom
Objective(p, xv) ==
  IF FGt(xv, Problems[p].dom) THEN NaN
  ELSE FAdd(FMul(FMul(FMul(<<5000, -4>>, xv), Problems[p].H), xv),
            FMul(Problems[p].q, xv))

\* auto gradient = [H, q](const Vector& x): H * x + q
Gradient(p, xv) == FAdd(FMul(Problems[p].H, xv), Problems[p].q)

\* objective_hessian: H
Hessian(p, xv) == Problems[p].H

\* c(i) = 0.5 * x' * P[i] * x + r[i].dot(x) - b[i]
Constraints(p, xv) ==
  [i \in 1..Len(Problems[p].b) |->
     FSub(FAdd(FMul(FMul(FMul(<<5000, -4>>, xv), Problems[p].P[i]), xv),
               FMul(Problems[p].r[i], xv)),
          Problems[p].b[i])]

\* J.row(i) = x' * P[i] + r[i]'
Jacobian(p, xv, zv) ==
  [i \in 1..Len(Problems[p].b) |->
     FAdd(FMul(xv, Problems[p].P[i]), Problems[p].r[i])]

\* W += z(i) * P[i], starting from W = 0
LagrangianHessian(p, xv, zv) ==
  Sum([i \in 1..Len(Problems[p].b) |-> FMul(zv[i], Problems[p].P[i])])

\* the initial guesses solve is called with
XGuesses == {FromInt(-1), FromInt(3), Zero}

(***************************************************************************)
(* Bounds of the model                                                     *)
(***************************************************************************)

\* setter calls made on one solver instance
MaxSetterCalls == 1

\* trial points of one line search explored
MaxTrials == 60

\* consecutive solves started from the x the previous solve returned
MaxResolves == 1

(***************************************************************************)
(* State                                                                   *)
(***************************************************************************)

VARIABLES
  solver,    \* the members of the Solver object (callbacks, descent, configuration)
  problem,   \* the problem whose callables the caller holds
  pc,        \* position in solve: "idle", "loop", "step", "trial"
  x, z, B, g_old, p_x, p_z, alpha, ls, iter,          \* the locals of solve
  f, c, g, J, W, r_x, r_c, norm_r0, eta, sigma, mu,   \* the locals of an iteration
  psi, dpsi, x_new, z_new, psi_new,                   \* the locals of the line search
  wrapper,   \* the members of the ProblemWrapper object, if one was built
  stored,    \* the callables last given to the wrapper's constructor and setters
  x_guess,   \* the argument of the running or last solve
  nresolve,  \* consecutive solves started from the x the previous one returned
  result,    \* what the last call gave its caller: a value or an exception
  outcome,   \* which exit of solve was taken: "converged", "max_iter", "fatal"
  out,       \* what solve wrote to std::cout
  nchecks,   \* convergence checks of this solve
  nsearch,   \* line searches started in this solve
  ncalls,    \* callback invocations of this solve
  nset       \* setter calls so far

iterate == <<x, z, B, g_old, iter>>

point == <<g, J, W, r_x, r_c, norm_r0, eta, sigma, mu>>

search == <<p_x, p_z, alpha, ls, psi, dpsi, x_new, z_new, psi_new>>

locals == <<iterate, f, c, point, search>>

history == <<outcome, out, nchecks, nsearch, ncalls>>

wrapped == <<wrapper, stored>>

vars == <<solver, problem, wrapped, pc, locals, x_guess, nresolve, result, history, nset>>

NEWTON == 0

BFGS == 1

STEEPEST == 2

Descents == {NEWTON, BFGS, STEEPEST}

\* nullptr of a std::function member
Null == 0

\* The member initializers of Solver
Defaults ==
  [m_objective |-> Null, m_objective_gradient |-> Null, m_objective_hessian |-> Null,
   m_constraints |-> Null, m_constraints_jacobian |-> Null, m_lagrangian_hessian |-> Null,
   m_descent |-> NEWTON,
   m_tolerance |-> Norm(1, -6),
   m_max_iterations |-> 100,
   m_verbose |-> FALSE,
   m_epsilon |-> Norm(1, -8),
   m_sigma_max |-> Norm(5, -1),
   m_eta_max |-> Norm(25, -2),
   m_mu_min |-> Norm(1, -9),
   m_alpha_max |-> Norm(995, -3),
   m_alpha_min |-> Norm(1, -6),
   m_beta |-> Norm(75, -2),
   m_tau |-> Norm(1, -2)]

\* Solver()
DefaultConstructor == Defaults

\* the five-callable constructor leaving the member initializer's mode
Constructor5Newton(p) ==
  [Defaults EXCEPT !.m_objective = p, !.m_objective_gradient = p,
                   !.m_constraints = p, !.m_constraints_jacobian = p,
                   !.m_lagrangian_hessian = p]

\* Solver(objective, objective_gradient, constraints, constraints_jacobian,
\*        lagrangian_hessian)
Constructor5(p) ==
  [Defaults EXCEPT !.m_objective = p, !.m_objective_gradient = p,
                   !.m_constraints = p, !.m_constraints_jacobian = p,
                   !.m_lagrangian_hessian = p, !.m_descent = BFGS]

\* Solver(objective, objective_gradient, objective_hessian, constraints,
\*        constraints_jacobian, lagrangian_hessian)
Constructor6(p) ==
  [Defaults EXCEPT !.m_objective = p, !.m_objective_gradient = p,
                   !.m_objective_hessian = p,
                   !.m_constraints = p, !.m_constraints_jacobian = p,
                   !.m_lagrangian_hessian = p, !.m_descent = NEWTON]

NoResult == [kind |-> "none", x |-> Zero, msg |-> ""]

(***************************************************************************)
(* ProblemWrapper: a Problem whose six methods call six stored callables   *)
(***************************************************************************)

\* The member initializers of ProblemWrapper
NoWrapper ==
  [m_objective |-> Null, m_objective_gradient |-> Null, m_objective_hessian |-> Null,
   m_constraints |-> Null, m_constraints_jacobian |-> Null, m_lagrangian_hessian |-> Null]

\* the five-callable constructor with its last argument stored as the
\* objective Hessian
WrapperConstructor5Shifted(o, gr, cc, j, lh) ==
  [NoWrapper EXCEPT !.m_objective = o, !.m_objective_gradient = gr,
                    !.m_constraints = cc, !.m_constraints_jacobian = j,
                    !.m_objective_hessian = lh]

\* ProblemWrapper(objective, objective_gradient, constraints,
\*                constraints_jacobian, lagrangian_hessian)
WrapperConstructor5(o, gr, cc, j, lh) ==
  [NoWrapper EXCEPT !.m_objective = o, !.m_objective_gradient = gr,
                    !.m_constraints = cc, !.m_constraints_jacobian = j,
                    !.m_lagrangian_hessian = lh]

\* ProblemWrapper(objective, objective_gradient, objective_hessian,
\*                constraints, constraints_jacobian, lagrangian_hessian)
WrapperConstructor6(o, gr, oh, cc, j, lh) ==
  [NoWrapper EXCEPT !.m_objective = o, !.m_objective_gradient = gr,
                    !.m_objective_hessian = oh,
                    !.m_constraints = cc, !.m_constraints_jacobian = j,
                    !.m_lagrangian_hessian = lh]

\* the getters: each returns a copy of the stored std::function
GetObjective(w) == w.m_objective

GetObjectiveGradient(w) == w.m_objective_gradient

GetObjectiveHessian(w) == w.m_objective_hessian

GetConstraints(w) == w.m_constraints

GetConstraintsJacobian(w) == w.m_constraints_jacobian

GetLagrangianHessian(w) == w.m_lagrangian_hessian

Ok == [kind |-> "ok", x |-> Zero, msg |-> ""]

Value(v) == [kind |-> "value", x |-> v, msg |-> ""]

\* IPSOLVER_ERROR(MSG): throw std::runtime_error(MSG)
Error(msg) == [kind |-> "error", x |-> Zero, msg |-> msg]

NoOut == [header |-> 0, rows |-> <<>>]

\* the locals of an iteration and of the line search before they are first assigned
NoPoint ==
  /\ g = Zero /\ J = <<>> /\ W = Zero /\ r_x = Zero /\ r_c = <<>>
  /\ norm_r0 = Zero /\ eta = Zero /\ sigma = Zero /\ mu = Zero

NoSearch ==
  /\ p_x = <<>> /\ p_z = <<>> /\ alpha = Zero /\ ls = 0
  /\ psi = Zero /\ dpsi = Zero /\ x_new = Zero /\ z_new = <<>> /\ psi_new = Zero

\* solve starts: no iteration and no line search has assigned its locals
ResetPoint ==
  /\ g' = Zero /\ J' = <<>> /\ W' = Zero /\ r_x' = Zero /\ r_c' = <<>>
  /\ norm_r0' = Zero /\ eta' = Zero /\ sigma' = Zero /\ mu' = Zero

ResetSearch ==
  /\ p_x' = <<>> /\ p_z' = <<>> /\ alpha' = Zero /\ ls' = 0
  /\ psi' = Zero /\ dpsi' = Zero /\ x_new' = Zero /\ z_new' = <<>> /\ psi_new' = Zero

Init ==
  /\ problem \in ProblemIds
  /\ solver \in {DefaultConstructor, Constructor5(problem), Constructor6(problem)}
  /\ pc = "idle"
  /\ x = Zero /\ z = <<>> /\ B = Zero /\ g_old = <<>> /\ iter = 0
  /\ f = Zero /\ c = <<>>
  /\ NoPoint
  /\ NoSearch
  /\ wrapper = NoWrapper /\ stored = NoWrapper
  /\ x_guess = Zero /\ nresolve = 0
  /\ result = NoResult
  /\ outcome = "none" /\ out = NoOut /\ nchecks = 0 /\ nsearch = 0 /\ ncalls = 0
  /\ nset = 0

(***************************************************************************)
(* Setters                                                                 *)
(***************************************************************************)

\* The arguments the setters are called with: values the setter rejects
\* (negative, zero, NaN) and values it accepts
MaxIterationsArgs == {-1, 0, 1, 2}

ToleranceArgs == {Zero, NaN, Norm(5, -1), FromInt(10)}

EpsilonArgs == {Zero, FromInt(1)}

SigmaMaxArgs == {FromInt(-1), FromInt(1)}

EtaMaxArgs == {Zero, FromInt(1)}

MuMinArgs == {NaN, Norm(1, -3)}

AlphaMaxArgs == {Zero, FromInt(1), FromInt(2)}

AlphaMinArgs == {Zero, FMul(Norm(995, -3), Norm(75, -2)), Norm(5, -1)}

BetaArgs == {FromInt(-1), Norm(5, -1), FromInt(1)}

TauArgs == {Zero, Norm(5, -1)}

\* the setters' condition weakened to value >= 0.0
PositiveOrZero(v) == FLe(Zero, v)

\* the condition of the setters' IPSOLVER_ASSERT: value > 0.0
Positive(v) == FGt(v, Zero)

\* setters are called between solves
Idle ==
  /\ pc = "idle"
  /\ nset < MaxSetterCalls

\* a setter call: the fields it stores, or the exception it throws
Call(new, res) ==
  /\ nset' = nset + 1
  /\ solver' = new
  /\ result' = res
  /\ UNCHANGED <<problem, wrapped, pc, locals, x_guess, nresolve, history>>

\* a Real setter that stores its argument before it checks it
SetRealStoredFirst(field, v, msg) ==
  IF FGt(v, Zero)
  THEN Call([solver EXCEPT ![field] = v], Ok)
  ELSE Call([solver EXCEPT ![field] = v], Error(msg))

\* a validated Real setter
SetReal(field, v, msg) ==
  IF Positive(v)
  THEN Call([solver EXCEPT ![field] = v], Ok)
  ELSE Call(solver, Error(msg))

SetObjective ==
  /\ Idle
  /\ \E fn \in {Null, problem} :
       Call([solver EXCEPT !.m_objective = fn], Ok)

SetObjectiveGradient ==
  /\ Idle
  /\ \E fn \in {Null, problem} :
       Call([solver EXCEPT !.m_objective_gradient = fn], Ok)

SetObjectiveHessian ==
  /\ Idle
  /\ \E fn \in {Null, problem} :
       Call([solver EXCEPT !.m_objective_hessian = fn], Ok)

SetConstraints ==
  /\ Idle
  /\ \E fn \in {Null, problem} :
       Call([solver EXCEPT !.m_constraints = fn], Ok)

SetConstraintsJacobian ==
  /\ Idle
  /\ \E fn \in {Null, problem} :
       Call([solver EXCEPT !.m_constraints_jacobian = fn], Ok)

SetLagrangianHessian ==
  /\ Idle
  /\ \E fn \in {Null, problem} :
       Call([solver EXCEPT !.m_lagrangian_hessian = fn], Ok)

SetDescent ==
  /\ Idle
  /\ \E d \in Descents :
       Call([solver EXCEPT !.m_descent = d], Ok)

SetVerbose ==
  /\ Idle
  /\ \E v \in BOOLEAN :
       Call([solver EXCEPT !.m_verbose = v], Ok)

SetMaxIterations ==
  /\ Idle
  /\ \E k \in MaxIterationsArgs :
       IF k > 0
       THEN Call([solver EXCEPT !.m_max_iterations = k], Ok)
       ELSE Call(solver,
                 Error("IPsolver::Solver::max_iterations(...): input value must be positive"))

SetTolerance ==
  /\ Idle
  /\ \E v \in ToleranceArgs :
       SetReal("m_tolerance", v,
               "IPsolver::Solver::tolerance(...): input value must be positive")

SetEpsilon ==
  /\ Idle
  /\ \E v \in EpsilonArgs :
       SetReal("m_epsilon", v,
               "IPsolver::Solver::epsilon(...): input value must be positive")

SetSigmaMax ==
  /\ Idle
  /\ \E v \in SigmaMaxArgs :
       SetReal("m_sigma_max", v,
               "IPsolver::Solver::sigma_max(...): input value must be positive")

SetEtaMax ==
  /\ Idle
  /\ \E v \in EtaMaxArgs :
       SetReal("m_eta_max", v,
               "IPsolver::Solver::eta_max(...): input value must be positive")

SetMuMin ==
  /\ Idle
  /\ \E v \in MuMinArgs :
       SetReal("m_mu_min", v,
               "IPsolver::Solver::mu_min(...): input value must be positive")

SetAlphaMax ==
  /\ Idle
  /\ \E v \in AlphaMaxArgs :
       SetReal("m_alpha_max", v,
               "IPsolver::Solver::alpha_max(...): input value must be positive")

SetAlphaMin ==
  /\ Idle
  /\ \E v \in AlphaMinArgs :
       SetReal("m_alpha_min", v,
               "IPsolver::Solver::alpha_min(...): input value must be positive")

SetBeta ==
  /\ Idle
  /\ \E v \in BetaArgs :
       SetReal("m_beta", v,
               "IPsolver::Solver::beta(...): input value must be positive")

SetTau ==
  /\ Idle
  /\ \E v \in TauArgs :
       SetReal("m_tau", v,
               "IPsolver::Solver::tau(...): input value must be positive")

(***************************************************************************)
(* Solver::solve: the pure parts                                           *)
(***************************************************************************)

\* the entry checks without the one on the objective Hessian
ValidationErrorNoHessian ==
  IF solver.m_objective = Null
    THEN "IPsolver::Solver::solve(...): objective function must not be null"
  ELSE IF solver.m_objective_gradient = Null
    THEN "IPsolver::Solver::solve(...): gradient of the objective function must not be null"
  ELSE IF solver.m_constraints = Null
    THEN "IPsolver::Solver::solve(...): constraints function must not be null"
  ELSE IF solver.m_constraints_jacobian = Null
    THEN "IPsolver::Solver::solve(...): jacobian of the constraints function must not be null"
  ELSE IF solver.m_lagrangian_hessian = Null
    THEN "IPsolver::Solver::solve(...): lagrangian hessian function must not be null"
  ELSE ""

\* The IPSOLVER_ASSERTs at the entry of solve, in order: the message of the
\* first that fails, "" when all pass.
ValidationError ==
  IF solver.m_objective = Null
    THEN "IPsolver::Solver::solve(...): objective function must not be null"
  ELSE IF solver.m_objective_gradient = Null
    THEN "IPsolver::Solver::solve(...): gradient of the objective function must not be null"
  ELSE IF ~(solver.m_objective_hessian # Null \/ solver.m_descent # NEWTON)
    THEN "IPsolver::Solver::solve(...): hessian of the objective function must not be null"
  ELSE IF solver.m_constraints = Null
    THEN "IPsolver::Solver::solve(...): constraints function must not be null"
  ELSE IF solver.m_constraints_jacobian = Null
    THEN "IPsolver::Solver::solve(...): jacobian of the constraints function must not be null"
  ELSE IF solver.m_lagrangian_hessian = Null
    THEN "IPsolver::Solver::solve(...): lagrangian hessian function must not be null"
  ELSE ""

\* r_x = g + J' z
DualResidual(gv, Jv, zv) == FAdd(gv, Dot(Jv, zv))

\* r_c = c .* z
Complementarity(cv, zv) == [i \in 1..Len(cv) |-> FMul(cv[i], zv[i])]

\* v.norm()
VectorNorm(v) == FSqrt(Sum([i \in 1..Len(v) |-> FMul(v[i], v[i])]))

\* r_0.norm() with r_0 << r_x, r_c
NormR0(rx, rc) ==
  FSqrt(FAdd(FMul(rx, rx), Sum([i \in 1..Len(rc) |-> FMul(rc[i], rc[i])])))

\* norm_r0 / nv with nv = n + m
ScaledResidual(nr, cv) == FDiv(nr, FromInt(1 + Len(cv)))

\* eta = min(eta_max, norm_r0 / nv)
Eta(nr, cv) == FMin(solver.m_eta_max, ScaledResidual(nr, cv))

\* sigma = min(sigma_max, sqrt(norm_r0 / nv))
Sigma(nr, cv) == FMin(solver.m_sigma_max, FSqrt(ScaledResidual(nr, cv)))

\* duality_gap = -c.dot(z)
DualityGap(cv, zv) == FNeg(Dot(cv, zv))

\* mu without its floor mu_min
MuUnfloored(sg, cv, zv) == FDiv(FMul(sg, DualityGap(cv, zv)), FromInt(Len(cv)))

\* mu = max(mu_min, sigma * duality_gap / m)
Mu(sg, cv, zv) ==
  FMax(solver.m_mu_min, FDiv(FMul(sg, DualityGap(cv, zv)), FromInt(Len(cv))))

\* the loop head with <= in place of <
LoopConditionInclusive(k) == k <= solver.m_max_iterations

\* the head of the for loop: iter < m_max_iterations
LoopCondition(k) == k < solver.m_max_iterations

\* the convergence check with the norm multiplied by nv in place of divided
ConvergedMisscaled(nr, cv) ==
  FLt(FMul(nr, FromInt(1 + Len(cv))), solver.m_tolerance)

\* the convergence check with <= in place of <
ConvergedOrEqual(nr, cv) == FLe(ScaledResidual(nr, cv), solver.m_tolerance)

\* the convergence check: norm_r0 / nv < m_tolerance
Converged(nr, cv) == FLt(ScaledResidual(nr, cv), solver.m_tolerance)

\* if (m_verbose) std::cout << header: lines written before the loop
Header == IF solver.m_verbose THEN 1 ELSE 0

\* the row printed whatever m_verbose is
PrintedAlways(o, row) == [o EXCEPT !.rows = Append(@, row)]

\* if (m_verbose) std::cout << row: the output after an iteration's print
Printed(o, row) ==
  IF solver.m_verbose THEN [o EXCEPT !.rows = Append(@, row)] ELSE o

\* the row numbered from 0
RowFromZero(k, fv, muv, sg, rx, rc, a, l) ==
  [i |-> k, f |-> fv, lgmu |-> FLog10(muv), sigma |-> sg,
   r_x |-> FAbs(rx), r_c |-> VectorNorm(rc), alpha |-> a, ls |-> l]

\* the row solve prints when verbose
Row(k, fv, muv, sg, rx, rc, a, l) ==
  [i |-> k + 1, f |-> fv, lgmu |-> FLog10(muv), sigma |-> sg,
   r_x |-> FAbs(rx), r_c |-> VectorNorm(rc), alpha |-> a, ls |-> l]

\* merit: f - c.dot(z) - mu * log(c^2 .* z + epsilon).sum()
Merit(zv, fv, cv, muv) ==
  FSub(FSub(fv, Dot(cv, zv)),
       FMul(muv, Sum([i \in 1..Len(cv) |->
                        FLog(FAdd(FMul(FMul(cv[i], cv[i]), zv[i]), solver.m_epsilon))])))

\* grad_merit: p_x.dot(g - J' z - 2 mu J' (1 / (c - epsilon)))
\*             - p_z.dot(c + mu (1 / (z + epsilon)))
GradMerit(zv, px, pz, gv, cv, Jv, muv) ==
  FSub(FMul(px,
            FSub(FSub(gv, Dot(Jv, zv)),
                 Dot([i \in 1..Len(cv) |-> FMul(FMul(FromInt(2), muv), Jv[i])],
                     [i \in 1..Len(cv) |->
                        FDiv(FromInt(1), FSub(cv[i], solver.m_epsilon))]))),
       Dot(pz, [i \in 1..Len(cv) |->
                  FAdd(cv[i], FMul(muv, FDiv(FromInt(1), FAdd(zv[i], solver.m_epsilon))))]))

\* the update condition weakened to y.dot(s) >= 0.0
BfgsConditionNonNegative(s, y) == FLe(Zero, FMul(y, s))

\* the condition of bfgs_update's IPSOLVER_ASSERT: y.dot(s) > 0.0
BfgsCondition(s, y) == FGt(FMul(y, s), Zero)

\* B - (x x') / s.dot(x) + (y y') / y.dot(s) with x = B s
BfgsFormula(Bm, s, y, Bs) ==
  FAdd(FSub(Bm, FDiv(FMul(Bs, Bs), FMul(s, Bs))), FDiv(FMul(y, y), FMul(y, s)))

\* bfgs_update past its assertion
BfgsUpdate(Bm, s, y) == BfgsFormula(Bm, s, y, FMul(Bm, s))

\* H.ldlt().solve(rhs) for a 1 x 1 matrix: rhs / H, and 0 when the pivot H
\* is zero or NaN (Eigen's LDLT divides only by pivots of magnitude above
\* the smallest positive double)
LdltSolve(H, rhs) ==
  IF IsNaN(H) \/ IsZero(H) THEN Zero ELSE FDiv(rhs, H)

\* c_epsilon = c - epsilon
CEpsilon(cv) == [i \in 1..Len(cv) |-> FSub(cv[i], solver.m_epsilon)]

\* g_b = g - mu J' (1 ./ c_epsilon)
GB(gv, muv, Jv, ce) ==
  FSub(gv, Dot([i \in 1..Len(ce) |-> FMul(muv, Jv[i])],
               [i \in 1..Len(ce) |-> FDiv(FromInt(1), ce[i])]))

\* H = B + W - J' S J with S = diag(z ./ c_epsilon)
KktH(Bm, Wv, Jv, zv, ce) ==
  FSub(FAdd(Bm, Wv),
       Dot([i \in 1..Len(ce) |-> FMul(Jv[i], FDiv(zv[i], ce[i]))], Jv))

\* the search direction of x: H p_x = -g_b
DirectionX(gv, ce, Jv, Wv, muv, Bm, zv) ==
  LdltSolve(KktH(Bm, Wv, Jv, zv, ce), FNeg(GB(gv, muv, Jv, ce)))

\* the search direction of z: p_z = -(z + mu (1 ./ c_epsilon) + S J p_x)
DirectionZ(ce, Jv, muv, zv, px) ==
  [i \in 1..Len(ce) |->
     FNeg(FAdd(FAdd(zv[i], FMul(muv, FDiv(FromInt(1), ce[i]))),
               FMul(FMul(FDiv(zv[i], ce[i]), Jv[i]), px)))]

\* mask = (z + p_z) < 0
Mask(zv, pz) == [i \in 1..Len(zv) |-> FLt(FAdd(zv[i], pz[i]), Zero)]

\* the ratios taken without the sign change of p_z
RatioUnsigned(zv, pz, mask) ==
  [i \in 1..Len(zv) |-> IF mask[i] THEN FDiv(zv[i], pz[i]) ELSE FromInt(1)]

\* mask.select(z ./ (-p_z), 1.0)
Ratio(zv, pz, mask) ==
  [i \in 1..Len(zv) |-> IF mask[i] THEN FDiv(zv[i], FNeg(pz[i])) ELSE FromInt(1)]

\* the first step size of the line search: alpha_max, shortened when some
\* z_i + p_z_i < 0 to alpha_max * min(1, min of the ratios)
StepFor(zv, pz, mask) ==
  IF \E i \in 1..Len(zv) : mask[i]
  THEN FMul(solver.m_alpha_max, FMin(FromInt(1), MinCoeff(Ratio(zv, pz, mask))))
  ELSE solver.m_alpha_max

InitialStep(zv, pz) == StepFor(zv, pz, Mask(zv, pz))

\* the acceptance test without the feasibility of the trial point
AcceptedMeritOnly(cv, pn, ps, et, a, dp) ==
  FLt(pn, FAdd(ps, FMul(FMul(FMul(solver.m_tau, et), a), dp)))

\* the acceptance test without the decrease of the merit function
AcceptedFeasibleOnly(cv, pn, ps, et, a, dp) ==
  \A i \in 1..Len(cv) : FLe(cv[i], Zero)

\* the acceptance test of a trial point:
\*   (c <= 0).all() && psi_new < psi + tau * eta * alpha * dpsi
Accepted(cv, pn, ps, et, a, dp) ==
  /\ \A i \in 1..Len(cv) : FLe(cv[i], Zero)
  /\ FLt(pn, FAdd(ps, FMul(FMul(FMul(solver.m_tau, et), a), dp)))

\* the condition of the line search's IPSOLVER_ASSERT: alpha > m_alpha_min
StepLargeEnough(a) == FGt(a, solver.m_alpha_min)

(***************************************************************************)
(* Solver::solve: the steps                                                *)
(***************************************************************************)

\* an exception leaves solve: the caller gets the error, nothing is returned
Throw(msg) ==
  /\ pc' = "idle"
  /\ result' = Error(msg)
  /\ outcome' = "fatal"

\* the break of the convergence test left out: the iteration goes on
ReturnUnlessConverged(xv, how) ==
  IF how = "converged"
  THEN pc' = "step" /\ UNCHANGED <<result, outcome>>
  ELSE pc' = "idle" /\ result' = Value(xv) /\ outcome' = how

\* return x
Return(xv, how) ==
  /\ pc' = "idle"
  /\ result' = Value(xv)
  /\ outcome' = how

\* the multipliers of the solve before kept when their size fits
InitialMultipliersKept(m) == IF Len(z) = m THEN z ELSE Ones(m)

\* Vector z(Vector::Ones(m))
InitialMultipliers(m) == Ones(m)

\* The arguments solve is called with: a fresh guess, or the x the solve
\* just before returned as converged
SolveArgs ==
  XGuesses \cup
    (IF result.kind = "value" /\ outcome = "converged" /\ nresolve < MaxResolves
     THEN {result.x} ELSE {})

\* Entry of solve(x_guess): the null checks, then the initialization
Solve ==
  \E xg \in SolveArgs :
    /\ pc = "idle"
    /\ x_guess' = xg
    /\ nresolve' = IF xg \in XGuesses THEN 0 ELSE nresolve + 1
    /\ nchecks' = 0
    /\ nsearch' = 0
    /\ IF ValidationError # ""
       THEN /\ Throw(ValidationError)
            /\ ncalls' = 0
            /\ out' = NoOut
            /\ UNCHANGED locals
       ELSE /\ pc' = "loop"
            /\ result' = NoResult
            /\ outcome' = "none"
            /\ x' = xg
            /\ c' = Constraints(solver.m_constraints, xg)
            /\ ncalls' = 1
            /\ z' = InitialMultipliers(Len(c'))
            /\ B' = FromInt(1)
            /\ g_old' = <<>>
            /\ out' = [header |-> Header, rows |-> <<>>]
            /\ iter' = 0
            /\ f' = Zero
            /\ ResetPoint
            /\ ResetSearch
    /\ UNCHANGED <<solver, problem, wrapped, nset>>

\* B left as it is in every mode
IterationHessianKept(Bm, xv) == Bm

\* if (m_descent == Descent::NEWTON) B = m_objective_hessian(x)
IterationHessian(Bm, xv) ==
  IF solver.m_descent = NEWTON THEN Hessian(solver.m_objective_hessian, xv) ELSE Bm

\* The head of the for loop and the first half of its body: the callbacks,
\* the residuals, the parameters, the row printed and the convergence check
Iteration ==
  /\ pc = "loop"
  /\ IF LoopCondition(iter)
     THEN /\ f' = Objective(solver.m_objective, x)
          /\ c' = Constraints(solver.m_constraints, x)
          /\ g' = Gradient(solver.m_objective_gradient, x)
          /\ J' = Jacobian(solver.m_constraints_jacobian, x, z)
          /\ W' = LagrangianHessian(solver.m_lagrangian_hessian, x, z)
          /\ B' = IterationHessian(B, x)
          /\ ncalls' = ncalls + (IF solver.m_descent = NEWTON THEN 6 ELSE 5)
          /\ r_x' = DualResidual(g', J', z)
          /\ r_c' = Complementarity(c', z)
          /\ norm_r0' = NormR0(r_x', r_c')
          /\ eta' = Eta(norm_r0', c')
          /\ sigma' = Sigma(norm_r0', c')
          /\ mu' = Mu(sigma', c', z)
          /\ out' = Printed(out, Row(iter, f', mu', sigma', r_x', r_c', alpha, ls))
          /\ nchecks' = nchecks + 1
          /\ IF Converged(norm_r0', c')
             THEN Return(x, "converged")
             ELSE pc' = "step" /\ UNCHANGED <<result, outcome>>
     ELSE /\ Return(x, "max_iter")
          /\ UNCHANGED <<f, c, point, B, ncalls, out, nchecks>>
  /\ UNCHANGED <<solver, problem, x, z, g_old, iter, search, nsearch, nset,
                 x_guess, nresolve, wrapped>>

\* the update put off by one more iteration
BfgsAppliesLate == solver.m_descent = BFGS /\ iter > 1

\* if (m_descent == Descent::BFGS && iter > 0)
BfgsApplies == solver.m_descent = BFGS /\ iter > 0

\* The BFGS update, the search direction and the set-up of the line search
SearchDirection ==
  /\ pc = "step"
  /\ IF BfgsApplies
        /\ ~BfgsCondition(FMul(alpha, p_x), FSub(g, g_old))
     THEN /\ Throw("IPsolver::Solver::bfgs_update(...): update condition y's > 0 not satisfied")
          /\ UNCHANGED <<B, search, nsearch>>
     ELSE /\ B' = IF BfgsApplies
                  THEN BfgsUpdate(B, FMul(alpha, p_x), FSub(g, g_old)) ELSE B
          /\ p_x' = DirectionX(g, CEpsilon(c), J, W, mu, B', z)
          /\ p_z' = DirectionZ(CEpsilon(c), J, mu, z, p_x')
          /\ alpha' = InitialStep(z, p_z')
          /\ psi' = Merit(z, f, c, mu)
          /\ dpsi' = GradMerit(z, p_x', p_z', g, c, J, mu)
          /\ ls' = 0
          /\ nsearch' = nsearch + 1
          /\ pc' = "trial"
          /\ UNCHANGED <<x_new, z_new, psi_new, result, outcome>>
  /\ UNCHANGED <<solver, problem, x, z, g_old, iter, f, c, point,
                 out, nchecks, ncalls, nset, x_guess, nresolve, wrapped>>

\* the step halved whatever beta is
BacktrackedHalved(a) == FMul(a, Norm(5, -1))

\* alpha *= m_beta
Backtracked(a) == FMul(a, solver.m_beta)

\* One pass of the while (true) loop of the line search
LineSearchTrial ==
  /\ pc = "trial"
  /\ ls < MaxTrials
  /\ ls' = ls + 1
  /\ x_new' = FAdd(x, FMul(alpha, p_x))
  /\ z_new' = [i \in 1..Len(z) |-> FAdd(z[i], FMul(alpha, p_z[i]))]
  /\ f' = Objective(solver.m_objective, x_new')
  /\ c' = Constraints(solver.m_constraints, x_new')
  /\ ncalls' = ncalls + 2
  /\ psi_new' = Merit(z_new', f', c', mu)
  /\ IF Accepted(c', psi_new', psi, eta, alpha, dpsi)
     THEN /\ x' = x_new'
          /\ z' = z_new'
          /\ g_old' = g
          /\ iter' = iter + 1
          /\ pc' = "loop"
          /\ UNCHANGED <<alpha, result, outcome>>
     ELSE /\ alpha' = Backtracked(alpha)
          /\ IF StepLargeEnough(alpha')
             THEN UNCHANGED <<pc, result, outcome>>
             ELSE Throw("IPsolver::Solver::solve(...): line search step size too small")
          /\ UNCHANGED <<x, z, g_old, iter>>
  /\ UNCHANGED <<solver, problem, B, point, p_x, p_z, psi, dpsi,
                 out, nchecks, nsearch, nset, x_guess, nresolve, wrapped>>

Next ==
  \/ SetObjective
  \/ SetObjectiveGradient
  \/ SetObjectiveHessian
  \/ SetConstraints
  \/ SetConstraintsJacobian
  \/ SetLagrangianHessian
  \/ SetDescent
  \/ SetVerbose
  \/ SetMaxIterations
  \/ SetTolerance
  \/ SetEpsilon
  \/ SetSigmaMax
  \/ SetEtaMax
  \/ SetMuMin
  \/ SetAlphaMax
  \/ SetAlphaMin
  \/ SetBeta
  \/ SetTau
  \/ Solve
  \/ Iteration
  \/ SearchDirection
  \/ LineSearchTrial

Spec == Init /\ [][Next]_vars

(***************************************************************************)
(* A problem supplied through a ProblemWrapper                             *)
(***************************************************************************)

\* the overridden methods of Problem: each calls the stored callable
WrapperObjective(w, xv) ==
  IF w.m_objective = Null THEN Error("bad_function_call")
  ELSE Value(Objective(w.m_objective, xv))

WrapperObjectiveGradient(w, xv) ==
  IF w.m_objective_gradient = Null THEN Error("bad_function_call")
  ELSE Value(Gradient(w.m_objective_gradient, xv))

WrapperObjectiveHessian(w, xv) ==
  IF w.m_objective_hessian = Null THEN Error("bad_function_call")
  ELSE Value(Hessian(w.m_objective_hessian, xv))

WrapperConstraints(w, xv) ==
  IF w.m_constraints = Null THEN Error("bad_function_call")
  ELSE Value(Constraints(w.m_constraints, xv))

WrapperConstraintsJacobian(w, xv, zv) ==
  IF w.m_constraints_jacobian = Null THEN Error("bad_function_call")
  ELSE Value(Jacobian(w.m_constraints_jacobian, xv, zv))

WrapperLagrangianHessian(w, xv, zv) ==
  IF w.m_lagrangian_hessian = Null THEN Error("bad_function_call")
  ELSE Value(LagrangianHessian(w.m_lagrangian_hessian, xv, zv))

\* Solver(objective, objective_gradient, objective_hessian, constraints,
\*        constraints_jacobian, lagrangian_hessian) on six callables
ConstructorOf(o, gr, oh, cc, j, lh) ==
  [Defaults EXCEPT !.m_objective = o, !.m_objective_gradient = gr,
                   !.m_objective_hessian = oh,
                   !.m_constraints = cc, !.m_constraints_jacobian = j,
                   !.m_lagrangian_hessian = lh, !.m_descent = NEWTON]

\* the solver built from the six callables the wrapper's getters return
SolverOf(w) ==
  ConstructorOf(GetObjective(w), GetObjectiveGradient(w), GetObjectiveHessian(w),
                GetConstraints(w), GetConstraintsJacobian(w),
                GetLagrangianHessian(w))

\* a wrapper built on the methods of the problem, with either constructor,
\* and a solver built from its getters
WrapperInit ==
  /\ problem \in ProblemIds
  /\ \E oh \in {Null, problem} :
       /\ wrapper = IF oh = Null
                    THEN WrapperConstructor5(problem, problem, problem, problem, problem)
                    ELSE WrapperConstructor6(problem, problem, oh, problem, problem, problem)
       /\ stored = [m_objective |-> problem, m_objective_gradient |-> problem,
                    m_objective_hessian |-> oh, m_constraints |-> problem,
                    m_constraints_jacobian |-> problem,
                    m_lagrangian_hessian |-> problem]
  /\ solver = SolverOf(wrapper)
  /\ pc = "idle"
  /\ x = Zero /\ z = <<>> /\ B = Zero /\ g_old = <<>> /\ iter = 0
  /\ f = Zero /\ c = <<>>
  /\ NoPoint
  /\ NoSearch
  /\ x_guess = Zero /\ nresolve = 0
  /\ result = NoResult
  /\ outcome = "none" /\ out = NoOut /\ nchecks = 0 /\ nsearch = 0 /\ ncalls = 0
  /\ nset = 0

\* a setter of the wrapper: the member is assigned; given is what the caller passed
WrapperCall(new, given) ==
  /\ nset' = nset + 1
  /\ wrapper' = new
  /\ stored' = given
  /\ UNCHANGED <<solver, problem, pc, locals, x_guess, nresolve, result, history>>

WrapperSetObjective ==
  /\ Idle
  /\ \E fn \in {Null, problem} :
       WrapperCall([wrapper EXCEPT !.m_objective = fn],
                   [stored EXCEPT !.m_objective = fn])

WrapperSetObjectiveGradient ==
  /\ Idle
  /\ \E fn \in {Null, problem} :
       WrapperCall([wrapper EXCEPT !.m_objective_gradient = fn],
                   [stored EXCEPT !.m_objective_gradient = fn])

WrapperSetObjectiveHessian ==
  /\ Idle
  /\ \E fn \in {Null, problem} :
       WrapperCall([wrapper EXCEPT !.m_objective_hessian = fn],
                   [stored EXCEPT !.m_objective_hessian = fn])

WrapperSetConstraints ==
  /\ Idle
  /\ \E fn \in {Null, problem} :
       WrapperCall([wrapper EXCEPT !.m_constraints = fn],
                   [stored EXCEPT !.m_constraints = fn])

WrapperSetConstraintsJacobian ==
  /\ Idle
  /\ \E fn \in {Null, problem} :
       WrapperCall([wrapper EXCEPT !.m_constraints_jacobian = fn],
                   [stored EXCEPT !.m_constraints_jacobian = fn])

WrapperSetLagrangianHessian ==
  /\ Idle
  /\ \E fn \in {Null, problem} :
       WrapperCall([wrapper EXCEPT !.m_lagrangian_hessian = fn],
                   [stored EXCEPT !.m_lagrangian_hessian = fn])

\* a new solver is built from the wrapper's getters
SolverFromWrapper ==
  /\ pc = "idle"
  /\ solver' = SolverOf(wrapper)
  /\ result' = NoResult
  /\ UNCHANGED <<problem, wrapped, pc, locals, x_guess, nresolve, history, nset>>

WrapperNext ==
  \/ WrapperSetObjective
  \/ WrapperSetObjectiveGradient
  \/ WrapperSetObjectiveHessian
  \/ WrapperSetConstraints
  \/ WrapperSetConstraintsJacobian
  \/ WrapperSetLagrangianHessian
  \/ SolverFromWrapper
  \/ Solve
  \/ Iteration
  \/ SearchDirection
  \/ LineSearchTrial

WrapperSpec == WrapperInit /\ [][WrapperNext]_vars

(***************************************************************************)
(* Properties                                                              *)
(***************************************************************************)

RealFields ==
  {"m_tolerance", "m_epsilon", "m_sigma_max", "m_eta_max", "m_mu_min",
   "m_alpha_max", "m_alpha_min", "m_beta", "m_tau"}

\* solve has returned x to its caller, and nothing has been called since
Returned == result.kind = "value"

\* a solve is running or has just returned
InSolve == pc # "idle" \/ Returned

\* a step that enters solve: from idle, and not a setter call
SolveCalled == pc = "idle" /\ nset' = nset

\* what the claims call a missing callback
MissingCallback ==
  \/ solver.m_objective = Null
  \/ solver.m_objective_gradient = Null
  \/ solver.m_constraints = Null
  \/ solver.m_constraints_jacobian = Null
  \/ solver.m_lagrangian_hessian = Null
  \/ (solver.m_objective_hessian = Null /\ solver.m_descent = NEWTON)

\* ||(r_x, r_c)|| / (n + m) computed at xv and zv through the callbacks
ScaledResidualAt(xv, zv) ==
  FDiv(NormR0(DualResidual(Gradient(solver.m_objective_gradient, xv),
                           Jacobian(solver.m_constraints_jacobian, xv, zv), zv),
              Complementarity(Constraints(solver.m_constraints, xv), zv)),
       FromInt(1 + Len(zv)))

\* c(xv) through the callback
ConstraintsAt(xv) == Constraints(solver.m_constraints, xv)

LineSearchMessage == "IPsolver::Solver::solve(...): line search step size too small"

BfgsMessage ==
  "IPsolver::Solver::bfgs_update(...): update condition y's > 0 not satisfied"

\* C1: the validated setters raise on a value <= 0 and store a value > 0, so
\* after any sequence of setter calls every stored configuration value
\* (tolerance, max_iterations and the eight algorithm constants) is strictly
\* positive.
C1_StoredValuesPositive ==
  /\ solver.m_max_iterations > 0
  /\ \A field \in RealFields : FGt(solver[field], Zero)

\* a setter has stored a value other than the default
C1_ValueStored ==
  /\ nset > 0
  /\ result = Ok
  /\ solver.m_alpha_min = Norm(5, -1)
  /\ solver.m_alpha_min # Defaults.m_alpha_min

\* C2: solve raises an error before any callback is invoked and before any
\* iteration exactly when a required callback is null (objective, gradient,
\* constraints, jacobian, lagrangian hessian, or the objective Hessian in
\* NEWTON mode); with a null objective Hessian in BFGS or STEEPEST mode, and
\* the others set, it starts iterating.
C2_NullCallbacksRejected ==
  [][SolveCalled =>
       IF MissingCallback
       THEN /\ result'.kind = "error"
            /\ outcome' = "fatal"
            /\ pc' = "idle"
            /\ ncalls' = 0
            /\ nchecks' = 0
            /\ UNCHANGED locals
       ELSE /\ pc' = "loop"
            /\ result' = NoResult]_vars

\* solve has rejected a NEWTON solver that has every callback but the Hessian
C2_HessianMissing ==
  /\ result = Error("IPsolver::Solver::solve(...): hessian of the objective function must not be null")
  /\ outcome = "fatal"
  /\ ncalls = 0
  /\ solver.m_descent = NEWTON
  /\ solver.m_objective # Null

\* C3: whenever solve returns by the convergence test, the scaled residual
\* ||(r_x, r_c)|| / (n + m) computed from the returned x and the current z is
\* strictly less than tolerance, and the x returned is the x that was tested.
C3_ConvergedBelowTolerance ==
  (Returned /\ outcome = "converged") =>
     /\ FLt(ScaledResidualAt(x, z), solver.m_tolerance)
     /\ result.x = x

\* solve has returned by the convergence test after at least one step
C3_ConvergedAfterSteps ==
  /\ Returned
  /\ outcome = "converged"
  /\ iter > 0

\* C4: for every solve that returns converged, whatever x_guess was supplied,
\* c_i(x) <= 0 holds for all i at the returned x.
C4_ConvergedFeasible ==
  (Returned /\ outcome = "converged") =>
     \A i \in 1..Len(z) : FLe(ConstraintsAt(result.x)[i], Zero)

C6_DualPositive ==
  InSolve => \A i \in 1..Len(z) : FGt(z[i], Zero)

\* C7: when max_iterations iterations complete without the convergence test
\* passing, solve raises no error and returns the x committed by the last
\* accepted line-search step, after exactly max_iterations convergence checks
\* and exactly max_iterations line searches.
C7_IterationCap ==
  (Returned /\ outcome = "max_iter") =>
     /\ iter = solver.m_max_iterations
     /\ nchecks = solver.m_max_iterations
     /\ nsearch = solver.m_max_iterations
     /\ result = Value(x)
     /\ x = x_new

\* solve has stopped at a cap of one iteration
C7_CapOfOne ==
  /\ Returned
  /\ outcome = "max_iter"
  /\ solver.m_max_iterations = 1
  /\ nsearch = 1

\* C8: what solve gives its caller tells which outcome occurred, so a value
\* is what a converged solve returns and a solve that stopped at the
\* iteration cap is told apart from it.
C8_OutcomeReported ==
  Returned => outcome = "converged"

\* C9: after each rejected trial alpha is multiplied by beta, and the solve
\* fails with 'line search step size too small' exactly when the shrunken
\* alpha is < alpha_min; otherwise the line search goes on with it.
C9_FailsBelowAlphaMin ==
  [][(pc = "trial" /\ ls' = ls + 1 /\ pc' # "loop") =>
       /\ alpha' = FMul(alpha, solver.m_beta)
       /\ IF FLt(alpha', solver.m_alpha_min)
          THEN /\ result' = Error(LineSearchMessage)
               /\ outcome' = "fatal"
               /\ pc' = "idle"
          ELSE /\ pc' = "trial"
               /\ UNCHANGED <<result, outcome>>]_vars

\* C10: in bfgs_update, y's <= 0 is an error that aborts the solve, B left as
\* it was; y's > 0 gives B - (Bs)(Bs)' / (s'Bs) + y y' / (y's).
C10_BfgsUpdate ==
  [][(pc = "step" /\ solver.m_descent = BFGS /\ iter > 0) =>
       /\ FLe(FMul(FSub(g, g_old), FMul(alpha, p_x)), Zero) =>
            /\ result' = Error(BfgsMessage)
            /\ outcome' = "fatal"
            /\ pc' = "idle"
            /\ UNCHANGED <<B, x, z, p_x, p_z, iter, nsearch>>
       /\ FGt(FMul(FSub(g, g_old), FMul(alpha, p_x)), Zero) =>
            /\ B' = FAdd(FSub(B, FDiv(FMul(FMul(B, FMul(alpha, p_x)),
                                           FMul(B, FMul(alpha, p_x))),
                                      FMul(FMul(alpha, p_x),
                                           FMul(B, FMul(alpha, p_x))))),
                         FDiv(FMul(FSub(g, g_old), FSub(g, g_old)),
                              FMul(FSub(g, g_old), FMul(alpha, p_x))))
            /\ pc' = "trial"]_vars

\* a BFGS update has replaced B and the solve went on
C10_Updated ==
  /\ solver.m_descent = BFGS
  /\ iter > 0
  /\ pc = "trial"
  /\ B # FromInt(1)

\* solve ended by throwing out of the loop
Thrown == result.kind = "error" /\ result.msg \in {LineSearchMessage, BfgsMessage}

\* outer iterations whose body has been entered by this solve: iter counts the
\* completed ones, and the one in progress (or the one solve left from inside)
\* is one more
Executed ==
  IF pc = "loop" \/ (Returned /\ outcome = "max_iter") THEN iter ELSE iter + 1

\* C11: while a solve that passed its entry checks runs, and when it has
\* ended, a verbose solver has written the header once and one row for each
\* outer iteration executed, the one that detected convergence included; a
\* solver that is not verbose has written no header and no row.
C11_TelemetryCount ==
  (InSolve \/ Thrown) =>
    IF solver.m_verbose
    THEN out.header = 1 /\ Len(out.rows) = Executed
    ELSE out = NoOut

\* a verbose solve that converged after more than one iteration
C11_VerboseConverged ==
  /\ Returned /\ outcome = "converged" /\ solver.m_verbose
  /\ iter >= 1 /\ out.header = 1 /\ Len(out.rows) = iter + 1

\* a step of solve that writes a row
RowWritten == Len(out'.rows) = Len(out.rows) + 1

\* C12: the row written by the k-th executed iteration carries i = k, and its
\* alpha and ls are what the line search of the iteration before left: the
\* step size of the trial that committed the current x and z and the number
\* of its trials; in the first row both are 0.
C12_RowFields ==
  [][RowWritten =>
       LET row == out'.rows[Len(out'.rows)] IN
       /\ row.i = Len(out'.rows)
       /\ row.i = iter + 1
       /\ row.alpha = alpha /\ row.ls = ls
       /\ iter = 0 => row.alpha = Zero /\ row.ls = 0
       /\ iter > 0 => /\ row.ls >= 1
                      /\ x = x_new /\ z = z_new]_vars

\* the second row of a solve, written after a line search that backtracked
C12_RowAfterBacktrack ==
  /\ Len(out.rows) = 2
  /\ out.rows[1].alpha = Zero /\ out.rows[1].ls = 0
  /\ out.rows[2].i = 2 /\ out.rows[2].ls > 1 /\ out.rows[2].alpha = alpha

\* norm_r0 / nv at x_guess with z = 1
ResidualAtGuess ==
  ScaledResidualAt(x_guess, Ones(Len(ConstraintsAt(x_guess))))

\* solve is about to make its first convergence check
FirstCheck == pc = "loop" /\ nchecks = 0

\* solve leaves from its first convergence check with x_guess
ReturnsGuess ==
  /\ pc' = "idle" /\ result' = Value(x_guess) /\ outcome' = "converged"
  /\ nchecks' = 1 /\ nsearch' = 0 /\ p_x' = <<>> /\ ls' = 0

\* C13: if the tolerance is greater than norm_r0 / nv evaluated at x_guess
\* with z = 1, solve returns x_guess after one convergence check, with no
\* search direction computed and no line search run.
C13_ReturnsAtFirstCheck ==
  [][FirstCheck /\ FLt(ResidualAtGuess, solver.m_tolerance) => ReturnsGuess]_vars

\* C13 as stated, with tolerance >= norm_r0 / nv
C13_ReturnsAtFirstCheckOrEqual ==
  [][FirstCheck /\ FLe(ResidualAtGuess, solver.m_tolerance) => ReturnsGuess]_vars

\* a solve that returned its guess from the first check
C13_ReturnedGuess ==
  /\ Returned /\ outcome = "converged" /\ result.x = x_guess
  /\ FLt(ResidualAtGuess, solver.m_tolerance)
  /\ nchecks = 1 /\ nsearch = 0 /\ p_x = <<>> /\ x_guess # Zero

\* the running or last solve was started from the x that the solve before it,
\* on the same solver with no setter call in between, returned as converged
Resolve == nresolve > 0 /\ (InSolve \/ Thrown)

\* C14: a solve started from the x returned by a converged solve of the same
\* solver and configuration passes its first convergence check: it runs no
\* line search and returns as converged after one check.
C14_ResolveConvergesAtOnce ==
  Resolve =>
    /\ pc \in {"idle", "loop"}
    /\ nsearch = 0
    /\ pc = "idle" => Returned /\ outcome = "converged" /\ nchecks = 1

\* what calling the callable given for the objective returns at xv
GivenObjective(xv) ==
  IF stored.m_objective = Null THEN Error("bad_function_call")
  ELSE Value(Objective(stored.m_objective, xv))

GivenObjectiveGradient(xv) ==
  IF stored.m_objective_gradient = Null THEN Error("bad_function_call")
  ELSE Value(Gradient(stored.m_objective_gradient, xv))

GivenObjectiveHessian(xv) ==
  IF stored.m_objective_hessian = Null THEN Error("bad_function_call")
  ELSE Value(Hessian(stored.m_objective_hessian, xv))

GivenConstraints(xv) ==
  IF stored.m_constraints = Null THEN Error("bad_function_call")
  ELSE Value(Constraints(stored.m_constraints, xv))

GivenConstraintsJacobian(xv, zv) ==
  IF stored.m_constraints_jacobian = Null THEN Error("bad_function_call")
  ELSE Value(Jacobian(stored.m_constraints_jacobian, xv, zv))

GivenLagrangianHessian(xv, zv) ==
  IF stored.m_lagrangian_hessian = Null THEN Error("bad_function_call")
  ELSE Value(LagrangianHessian(stored.m_lagrangian_hessian, xv, zv))

\* a multiplier vector of the problem's size
OnesAt(xv) == Ones(Len(Constraints(problem, xv)))

\* each getter returns the callable last given, and each method returns what
\* that callable returns
WrapperForwards ==
  /\ GetObjective(wrapper) = stored.m_objective
  /\ GetObjectiveGradient(wrapper) = stored.m_objective_gradient
  /\ GetObjectiveHessian(wrapper) = stored.m_objective_hessian
  /\ GetConstraints(wrapper) = stored.m_constraints
  /\ GetConstraintsJacobian(wrapper) = stored.m_constraints_jacobian
  /\ GetLagrangianHessian(wrapper) = stored.m_lagrangian_hessian
  /\ \A xv \in XGuesses :
       /\ WrapperObjective(wrapper, xv) = GivenObjective(xv)
       /\ WrapperObjectiveGradient(wrapper, xv) = GivenObjectiveGradient(xv)
       /\ WrapperObjectiveHessian(wrapper, xv) = GivenObjectiveHessian(xv)
       /\ WrapperConstraints(wrapper, xv) = GivenConstraints(xv)
       /\ WrapperConstraintsJacobian(wrapper, xv, OnesAt(xv))
            = GivenConstraintsJacobian(xv, OnesAt(xv))
       /\ WrapperLagrangianHessian(wrapper, xv, OnesAt(xv))
            = GivenLagrangianHessian(xv, OnesAt(xv))

\* the solver built from the wrapper is the solver built from the callables
\* given to the wrapper
SameSolver ==
  SolverFromWrapper =>
    solver' = ConstructorOf(stored.m_objective, stored.m_objective_gradient,
                            stored.m_objective_hessian, stored.m_constraints,
                            stored.m_constraints_jacobian,
                            stored.m_lagrangian_hessian)

\* every value an iteration of that solver gets from a callback is the value
\* the wrapper's method returns at the same arguments
SameCallbacks ==
  (pc = "loop" /\ nchecks' = nchecks + 1 /\ solver = SolverOf(wrapper)) =>
    /\ Value(f') = WrapperObjective(wrapper, x)
    /\ Value(c') = WrapperConstraints(wrapper, x)
    /\ Value(g') = WrapperObjectiveGradient(wrapper, x)
    /\ Value(J') = WrapperConstraintsJacobian(wrapper, x, z)
    /\ Value(W') = WrapperLagrangianHessian(wrapper, x, z)
    /\ Value(B') = WrapperObjectiveHessian(wrapper, x)
    /\ ncalls' = ncalls + 6

ObjectiveFailed == IsNaN(f')

\* a trial of the line search whose objective call failed is rejected: the
\* iterate stays and alpha is contracted
TrialFailureRejected ==
  (pc = "trial" /\ ls' = ls + 1 /\ ObjectiveFailed) =>
    /\ x' = x /\ z' = z /\ iter' = iter
    /\ alpha' = FMul(alpha, solver.m_beta)

\* an iteration whose objective call at the current iterate failed ends the
\* solve with an exception
IterateFailureFatal ==
  (pc = "loop" /\ nchecks' = nchecks + 1 /\ ObjectiveFailed) =>
    pc' = "idle" /\ result'.kind = "error"

\* C17: a callback that fails to evaluate at a line-search trial point makes
\* the trial an unacceptable candidate (alpha is contracted and the search
\* goes on), and one that fails at the current iterate ends the solve with a
\* fatal error.
C17_EvaluationFailure == [][TrialFailureRejected /\ IterateFailureFatal]_vars

\* the reduced matrix H of the iteration whose direction is being computed
ReducedH == KktH(B', W, J, z, CEpsilon(c))

\* the system H p_x = -g_b was not solved: H is singular or not finite (no
\* LDL^T factor gives a solution), or the p_x obtained is not finite
FactorizationFailed(H, px) ==
  IsZero(H) \/ IsNaN(H) \/ IsInf(H) \/ IsNaN(px) \/ IsInf(px)

\* C18: when the factorization or the solve of H p_x = -g_b fails, solve ends
\* with a fatal error at that step and does not go on to the line search with
\* the direction it obtained.
C18_FactorizationFailureFatal ==
  [][(pc = "step" /\ nsearch' = nsearch + 1
        /\ FactorizationFailed(ReducedH, p_x')) =>
       pc' = "idle" /\ result'.kind = "error"]_vars

\* c(x_guess) has a non-negative entry
InfeasibleGuess ==
  \E i \in 1..Len(ConstraintsAt(x_guess)) : FLe(Zero, ConstraintsAt(x_guess)[i])

\* C19: a solve started from an x_guess that is not strictly feasible ends
\* with the line-search failure error and returns no point.
C19_InfeasibleGuessFails ==
  ((Returned \/ Thrown) /\ InfeasibleGuess) => result = Error(LineSearchMessage)

\* The steps of solve's loops, told by the position they leave: from "loop"
\* the only step is Iteration, from "step" SearchDirection, and from "trial"
\* LineSearchTrial, which counts a trial
IterationStep == pc = "loop" /\ pc' \in {"step", "idle"}

SearchDirectionStep == pc = "step" /\ pc' \in {"trial", "idle"}

LineSearchTrialStep == pc = "trial" /\ ls < MaxTrials /\ ls' = ls + 1

\* solve is one sequential call: once entered, each step of its loops is
\* taken as long as it can be
LiveSpec ==
  /\ Spec
  /\ WF_pc(IterationStep)
  /\ WF_pc(SearchDirectionStep)
  /\ WF_ls(LineSearchTrialStep)

\* C20: every solve call terminates, whatever accepted configuration it runs
\* under: a solver inside solve is eventually outside it again, by a return
\* or by an exception.
C20_SolveTerminates == (pc # "idle") ~> (pc = "idle")

\* solve is entered and passes its entry checks
SolveStarts == pc = "idle" /\ pc' = "loop"

\* C21: no state of a solve reaches the next one: whatever earlier solves
\* left, a solve starts from x = x_guess, z = 1, B = I, alpha = 0, ls = 0 and
\* no g_old, p_x or p_z, with the locals of its iterations unassigned; and no
\* step of solve changes the configuration or the stored callbacks. The
\* start of a solve is therefore a function of x_guess and the solver alone.
C21_FreshStart ==
  [][(SolveStarts =>
        /\ x' = x_guess'
        /\ c' = ConstraintsAt(x_guess')
        /\ z' = Ones(Len(c'))
        /\ B' = FromInt(1)
        /\ alpha' = Zero /\ ls' = 0 /\ iter' = 0
        /\ g_old' = <<>> /\ p_x' = <<>> /\ p_z' = <<>>
        /\ NoPoint' /\ NoSearch'
        /\ nchecks' = 0 /\ nsearch' = 0)
     /\ ((nset' = nset) => (solver' = solver))]_vars

\* a solve started, from the x a solve with line searches returned, on the
\* locals that solve left behind
C21_StartedAfterSolve ==
  /\ pc = "loop" /\ nchecks = 0 /\ nresolve = 1
  /\ x_guess \notin XGuesses /\ x = x_guess
  /\ z = Ones(Len(z)) /\ B = FromInt(1) /\ g_old = <<>>

\* the step is one of solve, not a setter call
SolveStep == nset' = nset

\* INIT: entry of solve; it either starts the loop or throws at a null check
PhaseInit ==
  (pc = "idle" /\ SolveStep) =>
     \/ pc' = "loop" /\ iter' = 0 /\ nchecks' = 0 /\ nsearch' = 0
     \/ pc' = "idle" /\ result'.kind = "error" /\ outcome' = "fatal"

\* EVAL and TEST: callbacks at the current (x, z), residuals and parameters
\* from their values, the row, then the test on this iteration's residual
PhaseEvalTest ==
  (pc = "loop" /\ iter < solver.m_max_iterations) =>
     /\ g' = Gradient(solver.m_objective_gradient, x)
     /\ J' = Jacobian(solver.m_constraints_jacobian, x, z)
     /\ r_x' = DualResidual(g', J', z)
     /\ r_c' = Complementarity(c', z)
     /\ norm_r0' = NormR0(r_x', r_c')
     /\ nchecks' = nchecks + 1
     /\ solver.m_verbose => Len(out'.rows) = Len(out.rows) + 1
     /\ IF FLt(FDiv(norm_r0', FromInt(1 + Len(c'))), solver.m_tolerance)
        THEN /\ pc' = "idle" /\ result' = Value(x) /\ outcome' = "converged"
             /\ nchecks' = nsearch + 1
        ELSE pc' = "step"

\* the iteration cap: the loop condition fails before anything is evaluated
PhaseMaxIter ==
  (pc = "loop" /\ iter >= solver.m_max_iterations) =>
     /\ pc' = "idle" /\ result' = Value(x) /\ outcome' = "max_iter"
     /\ UNCHANGED <<f, c, point, ncalls, out, nchecks>>

\* an iteration that ends solve computes no direction, updates no B through
\* BFGS and evaluates no trial point
NoStepAtExit ==
  (pc = "loop" /\ pc' = "idle") =>
     /\ UNCHANGED <<search, nsearch, x, z, g_old, iter>>
     /\ solver.m_descent # NEWTON => B' = B
     /\ ncalls' <= ncalls + 6

\* STEP: BFGS update and direction; then the line search starts, or the
\* update throws
PhaseStep ==
  pc = "step" =>
     \/ pc' = "trial" /\ ls' = 0 /\ nsearch' = nsearch + 1 /\ nchecks' = nchecks
     \/ pc' = "idle" /\ result'.kind = "error" /\ outcome' = "fatal"

\* LINE_SEARCH: trials until one is accepted, which ends the iteration, or the
\* step is too small, which throws
PhaseLineSearch ==
  pc = "trial" =>
     /\ ls' = ls + 1
     /\ \/ pc' = "trial" /\ iter' = iter
        \/ pc' = "loop" /\ iter' = iter + 1 /\ iter' = nsearch'
        \/ pc' = "idle" /\ result'.kind = "error" /\ outcome' = "fatal"

\* C22: a solve goes INIT, then iterations of EVAL, TEST, STEP, LINE_SEARCH
\* in this order, and ends by convergence, at the iteration cap or with an
\* error; the iteration whose test passes does nothing after the test.
C22_PhaseOrder ==
  [][/\ PhaseInit
     /\ PhaseEvalTest
     /\ PhaseMaxIter
     /\ NoStepAtExit
     /\ PhaseStep
     /\ PhaseLineSearch]_vars

\* a solve converged after two full iterations with a backtracking line search
C22_ConvergedAfterIterations ==
  /\ Returned /\ outcome = "converged"
  /\ nsearch >= 2 /\ nchecks = nsearch + 1 /\ ls >= 2

\* the line search accepts its trial point
TrialAccepted == pc = "trial" /\ pc' = "loop"

\* what acceptance requires of the trial point and what it commits
AcceptanceCommits ==
  TrialAccepted =>
     /\ \A i \in 1..Len(z) : FLe(ConstraintsAt(x')[i], Zero)
     /\ psi_new' = Merit(z', Objective(solver.m_objective, x'), ConstraintsAt(x'), mu)
     /\ FLt(psi_new', FAdd(psi, FMul(FMul(FMul(solver.m_tau, eta), alpha), dpsi)))
     /\ x' = FAdd(x, FMul(alpha, p_x))
     /\ z' = [i \in 1..Len(z) |-> FAdd(z[i], FMul(alpha, p_z[i]))]
     /\ g_old' = Gradient(solver.m_objective_gradient, x)
     /\ UNCHANGED <<alpha, p_x, p_z>>

\* C23: a trial point is accepted only if c(x+) <= 0 in every component and
\* psi+ < psi + tau eta alpha Dpsi; acceptance moves x and z together, by the
\* same alpha, to (x + alpha p_x, z + alpha p_z) and sets g_old to the
\* gradient at the x before the step; every other step of a running solve (a
\* rejected trial, a failed line search, an iteration, a direction) leaves x,
\* z and g_old unchanged.
C23_AcceptanceOnly ==
  [][/\ AcceptanceCommits
     /\ (pc # "idle" /\ ~TrialAccepted) => UNCHANGED <<x, z, g_old>>]_vars

\* a trial point accepted after a rejected one, x having moved
C23_AcceptedAfterRejection ==
  /\ pc = "loop" /\ iter >= 1 /\ ls >= 2
  /\ x = x_new /\ z = z_new /\ x # x_guess /\ g_old = g

(***************************************************************************)
(* The first step of the line search as a function of z, p_z and alpha_max *)
(***************************************************************************)

\* the number of constraints of the vectors drawn
StepComponents == 2

\* multipliers z_i > 0, from tiny to huge
StepZ == {Norm(1, -320), Norm(5, -1), FromInt(1), Norm(9999, -3), Norm(1, 300)}

\* components of p_z of both signs, of every size, and not finite
StepPz ==
  {NInf, Norm(-1, 300), FromInt(-10), Norm(-1001, -3), FromInt(-1),
   Norm(-3, -1), Norm(-1, -300), Zero, FromInt(2), NaN}

\* values the alpha_max setter accepts, and the default
StepAlphaMax == {Norm(995, -3), FromInt(1), FromInt(2)}

\* solve stands before line 535 with some z > 0 and some p_z
StepInit ==
  /\ problem = 1
  /\ \E am \in StepAlphaMax : solver = [Constructor5(problem) EXCEPT !.m_alpha_max = am]
  /\ pc = "step"
  /\ x = Zero /\ B = FromInt(1) /\ g_old = <<>> /\ iter = 0
  /\ z \in [1..StepComponents -> StepZ]
  /\ p_z \in [1..StepComponents -> StepPz]
  /\ f = Zero /\ c = <<>>
  /\ NoPoint
  /\ p_x = <<>> /\ alpha = Zero /\ ls = 0
  /\ psi = Zero /\ dpsi = Zero /\ x_new = Zero /\ z_new = <<>> /\ psi_new = Zero
  /\ wrapper = NoWrapper /\ stored = NoWrapper
  /\ x_guess = Zero /\ nresolve = 0
  /\ result = NoResult
  /\ outcome = "none" /\ out = NoOut /\ nchecks = 0 /\ nsearch = 0 /\ ncalls = 0
  /\ nset = 0

\* alpha = m_alpha_max, shortened under the mask
FirstStep ==
  /\ pc = "step"
  /\ alpha' = InitialStep(z, p_z)
  /\ pc' = "trial"
  /\ UNCHANGED <<solver, problem, wrapped, iterate, f, c, point, p_x, p_z, ls,
                 psi, dpsi, x_new, z_new, psi_new, x_guess, nresolve, result,
                 history, nset>>

StepNext == FirstStep

StepSpec == StepInit /\ [][StepNext]_vars

\* the rule of the specification: start at alpha_max and, for each i <= k
\* with p_z_i < 0, take the smaller of alpha and alpha_max z_i / (-p_z_i)
RECURSIVE FractionToBoundaryTo(_, _, _)
FractionToBoundaryTo(zv, pz, k) ==
  IF k = 0 THEN solver.m_alpha_max
  ELSE IF FLt(pz[k], Zero)
       THEN FMin(FractionToBoundaryTo(zv, pz, k - 1),
                 FMul(solver.m_alpha_max, FDiv(zv[k], FNeg(pz[k]))))
       ELSE FractionToBoundaryTo(zv, pz, k - 1)

FractionToBoundary(zv, pz) == FractionToBoundaryTo(zv, pz, Len(zv))

\* C24: for every z > 0 and every p_z the first step the code computes
\* (alpha_max under an empty mask z + p_z < 0, else alpha_max times the
\* smaller of 1 and the least masked ratio z_i / (-p_z_i)) is the step of the
\* fraction-to-boundary rule over the components with p_z_i < 0.
C24_FirstStepIsFractionToBoundary ==
  (pc = "trial" /\ ls = 0) => alpha = FractionToBoundary(z, p_z)

\* a step shortened by one component, beside a component with p_z_i < 0 that
\* stays outside the mask
C24_ShortenedByOneComponent ==
  /\ pc = "trial" /\ ls = 0
  /\ FLt(alpha, solver.m_alpha_max) /\ FGt(alpha, Zero)
  /\ \E i, j \in 1..Len(z) :
       /\ FLt(FAdd(z[i], p_z[i]), Zero)
       /\ FLt(p_z[j], Zero) /\ ~FLt(FAdd(z[j], p_z[j]), Zero)

\* the step that follows a failed convergence test, in BFGS mode
BfgsStep == pc = "step" /\ solver.m_descent = BFGS

\* s and y as the code passes them: alpha p_x and g - g_old
UpdateS == FMul(alpha, p_x)

UpdateY == FSub(Gradient(solver.m_objective_gradient, x), g_old)

\* the first iteration leaves B alone; every later one that did not converge
\* calls bfgs_update on defined g_old and p_x, which updates B or throws
UpdateRuns ==
  BfgsStep =>
     IF iter = 0
     THEN B' = B /\ pc' = "trial"
     ELSE /\ g_old # <<>> /\ p_x # <<>>
          /\ IF FGt(FMul(UpdateY, UpdateS), Zero)
             THEN B' = BfgsUpdate(B, UpdateS, UpdateY) /\ pc' = "trial"
             ELSE B' = B /\ pc' = "idle" /\ result' = Error(BfgsMessage)

\* alpha and p_x of the accepted trial are the displacement of x, and g_old
\* is the gradient at the x that was left
DisplacementKept ==
  /\ TrialAccepted =>
        /\ x' = FAdd(x, FMul(alpha', p_x'))
        /\ g_old' = Gradient(solver.m_objective_gradient, x)
  /\ pc = "loop" => UNCHANGED <<x, alpha, p_x, g_old>>

\* C25: in BFGS mode the first iteration runs no update and every later
\* iteration that does not converge runs it, on s = alpha p_x, the step that
\* took x_(k-1) to x_k, and y = g(x_k) - g(x_(k-1)), both defined.
C25_BfgsUpdateRuns == [][UpdateRuns /\ DisplacementKept]_vars

\* a second iteration of a BFGS solve whose update changed B
C25_UpdatedInSecondIteration ==
  /\ pc = "trial" /\ ls = 0 /\ solver.m_descent = BFGS
  /\ iter = 1 /\ B # FromInt(1) /\ g_old # <<>>

\* the first half of an iteration: the loop condition holds at pc = "loop"
Evaluates == pc = "loop" /\ iter < solver.m_max_iterations

\* NEWTON: every iteration takes B from the objective Hessian at the
\* current x, one callback call more than in the other modes
NewtonSource ==
  (Evaluates /\ solver.m_descent = NEWTON) =>
     /\ B' = Hessian(solver.m_objective_hessian, x)
     /\ ncalls' = ncalls + 6

\* BFGS and STEEPEST: an iteration makes the five other callback calls and
\* leaves B alone
NoHessianCall ==
  (Evaluates /\ solver.m_descent # NEWTON) =>
     /\ B' = B
     /\ ncalls' = ncalls + 5

\* BFGS: a solve starts from the identity and B changes in bfgs_update only
BfgsSource ==
  (solver.m_descent = BFGS /\ SolveStep) =>
     /\ SolveStarts => B' = FromInt(1)
     /\ (pc # "idle" /\ B' # B) =>
           /\ pc = "step" /\ iter > 0
           /\ B' = BfgsUpdate(B, FMul(alpha, p_x), FSub(g, g_old))

\* STEEPEST: B is the identity from the start of a solve to its end
SteepestSource ==
  (solver.m_descent = STEEPEST /\ (pc # "idle" \/ pc' # "idle")) => B' = FromInt(1)

\* outside the first half of an iteration B changes in BFGS mode only
OtherStepsKeep ==
  (pc \in {"step", "trial"} /\ solver.m_descent # BFGS) => B' = B

\* C26: the descent mode alone decides where B comes from: in NEWTON mode
\* from the objective Hessian callback at the current x in every iteration,
\* in BFGS mode from the identity through bfgs_update only, in STEEPEST mode
\* the identity throughout; outside NEWTON mode the objective Hessian
\* callback is not called.
C26_HessianSource ==
  [][/\ NewtonSource
     /\ NoHessianCall
     /\ BfgsSource
     /\ SteepestSource
     /\ OtherStepsKeep]_vars

\* a NEWTON solve in its second iteration with B taken from the callback
C26_NewtonHessianTaken ==
  /\ pc = "step" /\ solver.m_descent = NEWTON /\ iter >= 1
  /\ B = Hessian(solver.m_objective_hessian, x) /\ B # FromInt(1)

\* the locals of an iteration hold the values of its first half: the test
\* failed and the step is next, or the test passed and solve returned
Evaluated == pc = "step" \/ (Returned /\ outcome = "converged")

\* nu = n + m with n = 1
ResidualPerVariable == FDiv(norm_r0, FromInt(1 + Len(c)))

\* eta, sigma and mu by their formulas
ParameterFormulas ==
  /\ eta = FMin(solver.m_eta_max, ResidualPerVariable)
  /\ sigma = FMin(solver.m_sigma_max, FSqrt(ResidualPerVariable))
  /\ mu = FMax(solver.m_mu_min,
               FDiv(FMul(sigma, FNeg(Dot(c, z))), FromInt(Len(c))))

\* 0 <= eta <= eta_max, 0 <= sigma <= sigma_max, mu >= mu_min > 0
ParameterRanges ==
  /\ FLe(Zero, eta) /\ FLe(eta, solver.m_eta_max)
  /\ FLe(Zero, sigma) /\ FLe(sigma, solver.m_sigma_max)
  /\ FLe(solver.m_mu_min, mu) /\ FGt(solver.m_mu_min, Zero)

\* the duality gap is positive at a strictly feasible c with z > 0
GapPositive ==
  (\A i \in 1..Len(c) : FLt(c[i], Zero) /\ FGt(z[i], Zero)) =>
     FGt(FNeg(Dot(c, z)), Zero)

\* C27: in every iteration eta = min(eta_max, ||r_0|| / nu),
\* sigma = min(sigma_max, sqrt(||r_0|| / nu)) and
\* mu = max(mu_min, sigma (-c'z) / m); so eta is in [0, eta_max], sigma in
\* [0, sigma_max], mu >= mu_min > 0, and -c'z > 0 when c < 0 and z > 0.
C27_CenteringParameters ==
  Evaluated => ParameterFormulas /\ ParameterRanges /\ GapPositive

\* an iteration after the first with eta and sigma below their caps, mu at
\* its floor and a positive gap
C27_FloorAndCapsActive ==
  /\ pc = "step" /\ iter >= 1
  /\ FLt(eta, solver.m_eta_max) /\ FLt(sigma, solver.m_sigma_max)
  /\ mu = solver.m_mu_min
  /\ \A i \in 1..Len(c) : FLt(c[i], Zero) /\ FGt(z[i], Zero)

\* a0 multiplied k times by beta, one rounding each time as in the loop
RECURSIVE Shrunk(_, _)
Shrunk(a0, k) == IF k = 0 THEN a0 ELSE FMul(Shrunk(a0, k - 1), solver.m_beta)

\* inside a line search after ls trials: the next trial, the (ls + 1)-th,
\* uses alpha_0 beta^ls with alpha_0 the first step, which is at most
\* alpha_max; past the first trial alpha has passed alpha > alpha_min
TrialStep ==
  pc = "trial" =>
     /\ alpha = Shrunk(InitialStep(z, p_z), ls)
     /\ FLe(InitialStep(z, p_z), solver.m_alpha_max)
     /\ ls >= 1 => FGt(alpha, solver.m_alpha_min)

\* ls counts the trial points: it starts at 0, each trial evaluates one
\* point at the current alpha and adds 1, and a line search that ends has
\* evaluated at least one
TrialsCounted ==
  /\ (pc = "step" /\ pc' = "trial") => (ls' = 0 /\ ncalls' = ncalls)
  /\ pc = "trial" =>
        /\ ls' = ls + 1 /\ ls' >= 1
        /\ ncalls' = ncalls + 2
        /\ x_new' = FAdd(x, FMul(alpha, p_x))
        /\ f' = Objective(solver.m_objective, x_new')
        /\ TrialAccepted => alpha' = alpha
  /\ (pc = "trial" /\ pc' = "trial") => UNCHANGED <<x, z, p_x, p_z>>

\* C28: the k-th trial of a line search uses alpha_0 beta^(k-1), alpha_0 <=
\* alpha_max being the first step; ls on exit is the number of trial points
\* evaluated, at least 1; every trial after the first has alpha > alpha_min
\* and the first trial's alpha_0 is used without that comparison.
C28_TrialSteps == []TrialStep /\ [][TrialsCounted]_vars

\* a first trial accepted with a step not above alpha_min
C28_FirstStepBelowMinimum ==
  /\ pc = "loop" /\ iter >= 1 /\ ls = 1
  /\ x = x_new /\ FLe(alpha, solver.m_alpha_min)

(***************************************************************************)
(* A solver built by any constructor and completed through the callback    *)
(* setters                                                                 *)
(***************************************************************************)

\* setter calls enough to give a default-constructed solver its six callbacks
MaxCallbackSets == 6

CallbackFields ==
  {"m_objective", "m_objective_gradient", "m_objective_hessian",
   "m_constraints", "m_constraints_jacobian", "m_lagrangian_hessian"}

\* one of the six callback setters, called with a callable of the problem
SetCallback ==
  /\ pc = "idle"
  /\ nset < MaxCallbackSets
  /\ \E field \in CallbackFields :
       Call([solver EXCEPT ![field] = problem], Ok)

ConstructionNext ==
  \/ SetCallback
  \/ Solve
  \/ Iteration
  \/ SearchDirection
  \/ LineSearchTrial

ConstructionSpec == Init /\ [][ConstructionNext]_vars

\* the callbacks of the solver that are null
NullCallbacks == {field \in CallbackFields : solver[field] = Null}

\* a solver no setter was called on is as one of the three constructors
\* leaves it: five callables and BFGS, six callables and NEWTON, or no
\* callable and NEWTON
AsConstructed ==
  nset = 0 =>
     \/ NullCallbacks = {"m_objective_hessian"} /\ solver.m_descent = BFGS
     \/ NullCallbacks = {} /\ solver.m_descent = NEWTON
     \/ NullCallbacks = CallbackFields /\ solver.m_descent = NEWTON

\* in NEWTON mode, the mode of a default-constructed solver, solve passes
\* its entry checks when all six callbacks are set and throws at them before
\* that
FailsUntilSet ==
  (pc = "idle" /\ SolveStep /\ solver.m_descent = NEWTON) =>
     IF NullCallbacks = {}
     THEN pc' = "loop"
     ELSE pc' = "idle" /\ result'.kind = "error" /\ ncalls' = 0

\* C29: the five-callable constructor sets the mode BFGS, the six-callable
\* one NEWTON; a default-constructed solver has mode NEWTON and no callback,
\* and solve on it fails its entry checks until the callbacks are set.
C29_ConstructedModes == []AsConstructed /\ [][FailsUntilSet]_vars

\* solve has thrown at its first entry check on a default-constructed solver
C29_DefaultSolverRejected ==
  /\ nset = 0 /\ NullCallbacks = CallbackFields /\ solver.m_descent = NEWTON
  /\ pc = "idle" /\ result.kind = "error"
  /\ result.msg = "IPsolver::Solver::solve(...): objective function must not be null"

\* a setter was called
SetterStep == nset' = nset + 1

\* every member of the solver but the named one keeps its value
OnlyField(field) ==
  \A other \in DOMAIN solver \ {field} : solver'[other] = solver[other]

\* each setter writes to the member of its own name only
OwnFieldOnly ==
  /\ SetObjective => OnlyField("m_objective")
  /\ SetObjectiveGradient => OnlyField("m_objective_gradient")
  /\ SetObjectiveHessian => OnlyField("m_objective_hessian")
  /\ SetConstraints => OnlyField("m_constraints")
  /\ SetConstraintsJacobian => OnlyField("m_constraints_jacobian")
  /\ SetLagrangianHessian => OnlyField("m_lagrangian_hessian")
  /\ SetDescent => OnlyField("m_descent")
  /\ SetVerbose => OnlyField("m_verbose")
  /\ SetMaxIterations => OnlyField("m_max_iterations")
  /\ SetTolerance => OnlyField("m_tolerance")
  /\ SetEpsilon => OnlyField("m_epsilon")
  /\ SetSigmaMax => OnlyField("m_sigma_max")
  /\ SetEtaMax => OnlyField("m_eta_max")
  /\ SetMuMin => OnlyField("m_mu_min")
  /\ SetAlphaMax => OnlyField("m_alpha_max")
  /\ SetAlphaMin => OnlyField("m_alpha_min")
  /\ SetBeta => OnlyField("m_beta")
  /\ SetTau => OnlyField("m_tau")

\* C30: a setter call that throws leaves every member of the solver as it
\* was, and one that returns has changed at most the member it is named
\* after: no other configuration value, no callback, not the descent mode.
C30_SetterFrame ==
  [][SetterStep =>
       /\ result'.kind = "error" => solver' = solver
       /\ OwnFieldOnly]_vars

\* the tolerance setter has thrown and the solver is as constructed
C30_RejectedUnchanged ==
  /\ nset = 1 /\ result.kind = "error"
  /\ result.msg = "IPsolver::Solver::tolerance(...): input value must be positive"
  /\ solver \in {DefaultConstructor, Constructor5(problem), Constructor6(problem)}

====
